---- MODULE Spec2Model ----
(***************************************************************************)
(* MineCord: the Minecraft server lifecycle manager                        *)
(* (src/server_manager.py, class MinecraftServerManager) as a state        *)
(* machine.  Every coroutine of the manager is cut at its await points:    *)
(* one action is the code that runs between two awaits, which asyncio      *)
(* executes without interruption.  Handlers that are suspended at an await *)
(* are the records of `ops`; monitor tasks are the records of `mon`.       *)
(***************************************************************************)
EXTENDS Integers, FiniteSets, Sequences, TLC

\* ------------------------------------------------------------ bounds
Names == {"a", "b"}          \* server names the operator uses
MaxObjs == 2                 \* ServerConfig objects built in one manager run
MaxProcs == 2                \* processes spawned in one manager run
MaxOps == 2                  \* handlers suspended at an await at one time
MaxCrashCount == 1           \* starts are requested while crash_count is below
MaxPackPort == 2             \* highest server-port a pack's server.properties names

\* ------------------------------------------------------------ configuration
port_min == 1
port_max == 2
max_concurrent == 1

Ports == port_min .. port_max
ObjIds == 1 .. MaxObjs
ProcIds == 1 .. MaxProcs
NoName == "-"
\* what a downloaded pack ships: no server.properties (0) or one with a server-port
PackFiles == 0 .. MaxPackPort

\* ServerStatus values
STOPPED == "stopped"
STARTING == "starting"
RUNNING == "running"
STOPPING == "stopping"
CRASHED == "crashed"
ERROR == "error"

\* A ServerConfig object; Absent stands for "no object" / "no entry".
ServerConfig(port) ==
  [port |-> port, status |-> STOPPED, pid |-> 0, restart_count |-> 0, crash_count |-> 0]
Absent ==
  [port |-> 0, status |-> "absent", pid |-> 0, restart_count |-> 0, crash_count |-> 0]

\* ret: the operation, its name argument and its result, with the object it
\* worked on, crash_count as start_server found it (cc0) and whether
\* delete_server found the descriptor RUNNING (running0)
NoRet == [op |-> "-", name |-> NoName, res |-> "-", obj |-> 0, cc0 |-> 0, running0 |-> FALSE]
Ret(op, n, res) == [op |-> op, name |-> n, res |-> res, obj |-> 0, cc0 |-> 0, running0 |-> FALSE]

VARIABLES
  servers,          \* self.servers: name -> ServerConfig object (0: no key)
  objs,             \* the ServerConfig objects of this run, by identity
  processes,        \* self.processes: name -> process handle (0: no key)
  procs,            \* the process handles of this run: state and owner object
  monitoring_tasks, \* self.monitoring_tasks: name -> monitor task (0: no key)
  mon,              \* the monitor tasks, one per spawn: pc, name, process, server
  allocated_ports,  \* self.allocated_ports: port -> name (NoName: no key)
  lock,             \* self.lock is held
  persisted,        \* server_states.json: name -> saved attributes (what json.load gives)
  ops,              \* the handlers suspended at an await
  ret,              \* what the step just taken returned to its caller
  boot,             \* "loaded": constructed, on_ready not yet run; "ready"
  server_properties,\* servers/<name>/server.properties: its server-port (0: no file)
  stdin_lines,      \* lines written to the input stream of each process
  state_file        \* server_states.json on disk: "complete", "empty" or "partial"

vars == <<servers, objs, processes, procs, monitoring_tasks, mon, allocated_ports,
          lock, persisted, ops, ret, boot, server_properties, stdin_lines, state_file>>

\* ------------------------------------------------------------ helpers
NoMon == [pc |-> "none", name |-> NoName, proc |-> 0, srv |-> 0]
NoProcRec == [state |-> "none", obj |-> 0]

FreshObj == CHOOSE o \in ObjIds : objs[o] = Absent /\ \A q \in ObjIds : q < o => objs[q] # Absent
FreshProc == CHOOSE p \in ProcIds : procs[p].state = "none"
                 /\ \A q \in ProcIds : q < p => procs[q].state # "none"
HasFreshObj == \E o \in ObjIds : objs[o] = Absent
HasFreshProc == \E p \in ProcIds : procs[p].state = "none"

\* process.returncode is not None
exited(p) == procs[p].state \in {"crashed", "stopped"}

\* save_server_states: the file holds asdict() of every value of self.servers
save_server_states(srv, ob) ==
  [n \in Names |-> IF srv[n] = 0 THEN Absent ELSE ob[srv[n]]]

\* load_server_states: one fresh object per saved name; the ports of the
\* RUNNING ones are entered in allocated_ports
Rank(n) == IF n = "a" THEN 1 ELSE 2
loaded_servers ==
  [n \in Names |-> IF persisted[n] = Absent THEN 0
                   ELSE Cardinality({m \in Names : persisted[m] # Absent /\ Rank(m) <= Rank(n)})]
loaded_objs ==
  [o \in ObjIds |-> IF \E n \in Names : loaded_servers[n] = o
                    THEN persisted[CHOOSE n \in Names : loaded_servers[n] = o]
                    ELSE Absent]
loaded_ports ==
  [p \in Ports |-> IF \E n \in Names : persisted[n] # Absent /\ persisted[n].status = RUNNING
                                         /\ persisted[n].port = p
                   THEN CHOOSE n \in Names : persisted[n] # Absent
                          /\ persisted[n].status = RUNNING /\ persisted[n].port = p
                          /\ \A m \in Names : (persisted[m] # Absent /\ persisted[m].status = RUNNING
                                                /\ persisted[m].port = p) => Rank(m) <= Rank(n)
                   ELSE NoName]

\* allocate_port with the slip of range(port_min, port_max)
allocate_port_short ==
  LET free == {p \in port_min .. port_max - 1 : allocated_ports[p] = NoName}
  IN IF free = {} THEN 0 ELSE CHOOSE p \in free : \A q \in free : p <= q

allocate_port ==
  LET free == {p \in Ports : allocated_ports[p] = NoName}
  IN IF free = {} THEN 0 ELSE CHOOSE p \in free : \A q \in free : p <= q

\* release_port with the slip of dropping every key instead of the one given
release_port_clear(ap, port) == [p \in DOMAIN ap |-> NoName]

release_port(ap, port) ==
  IF port \in DOMAIN ap /\ ap[port] # NoName THEN [ap EXCEPT ![port] = NoName] ELSE ap

get_running_count ==
  Cardinality({n \in Names : servers[n] # 0 /\ objs[servers[n]].status = RUNNING})

\* a handler suspends: its record joins ops (dup tells equal records apart)
Suspend(o) ==
  LET k == CHOOSE i \in 0 .. MaxOps : [o EXCEPT !.dup = i] \notin ops
                                       /\ \A j \in 0 .. MaxOps : j < i => [o EXCEPT !.dup = j] \in ops
  IN ops \cup {[o EXCEPT !.dup = k]}
Op(kind, pc, n, obj, proc, port, cc0) ==
  [kind |-> kind, pc |-> pc, name |-> n, obj |-> obj, proc |-> proc, port |-> port,
   cc0 |-> cc0, dup |-> 0]
CanSuspend == Cardinality(ops) < MaxOps

\* ------------------------------------------------------------ Init
Init ==
  /\ servers = [n \in Names |-> 0]
  /\ objs = [o \in ObjIds |-> Absent]
  /\ processes = [n \in Names |-> 0]
  /\ procs = [p \in ProcIds |-> NoProcRec]
  /\ monitoring_tasks = [n \in Names |-> 0]
  /\ mon = [p \in ProcIds |-> NoMon]
  /\ allocated_ports = [p \in Ports |-> NoName]
  /\ lock = FALSE
  /\ persisted = [n \in Names |-> Absent]
  /\ ops = {}
  /\ ret = NoRet
  /\ boot = "loaded"
  /\ server_properties = [n \in Names |-> 0]
  /\ stdin_lines = [p \in ProcIds |-> 0]
  /\ state_file = "complete"

\* ------------------------------------------------------------ create_server
\* create_precheck with the slip of comparing with > instead of >=
create_precheck_above(n) ==
  IF servers[n] # 0 THEN "exists"
  ELSE IF get_running_count > max_concurrent THEN "limit"
  ELSE IF allocate_port = 0 THEN "no_ports"
  ELSE "ok"

create_precheck(n) ==
  IF servers[n] # 0 THEN "exists"
  ELSE IF get_running_count >= max_concurrent THEN "limit"
  ELSE IF allocate_port = 0 THEN "no_ports"
  ELSE "ok"

\* lines 126-152/157: take the lock, check, allocate, mkdir, await the download
CreateBegin(n) ==
  /\ ~lock
  /\ LET res == create_precheck(n)
     IN IF res = "ok"
        THEN /\ CanSuspend /\ HasFreshObj
             /\ lock' = TRUE
             /\ ops' = Suspend(Op("create", "download", n, 0, 0, allocate_port, 0))
             /\ ret' = NoRet
        ELSE /\ ret' = Ret("create", n, res)
             /\ UNCHANGED <<lock, ops>>
  /\ UNCHANGED <<servers, objs, processes, procs, monitoring_tasks, mon, allocated_ports,
                 persisted, boot, server_properties, stdin_lines, state_file>>

\* update_server_properties(name, "server-port", value), lines 98-122, on the
\* fleet srv and the files sp
update_server_properties(srv, sp, n, value) ==
  IF srv[n] = 0 THEN sp
  ELSE IF sp[n] = 0 THEN sp
  ELSE [sp EXCEPT ![n] = value]

\* the download has put its files in the directory: a pack that ships a
\* server.properties (pack: its server-port) replaces the one there
unpack(sp, n, pack) == IF pack = 0 THEN sp ELSE [sp EXCEPT ![n] = pack]

\* lines 153-170: the download returned or raised
create_commit(o, new) ==
  /\ objs' = [objs EXCEPT ![new] = ServerConfig(o.port)]
  /\ servers' = [servers EXCEPT ![o.name] = new]
  /\ allocated_ports' = [allocated_ports EXCEPT ![o.port] = o.name]
  /\ persisted' = save_server_states(servers', objs')

CreateFinish(o, downloaded, pack) ==
  /\ o \in ops /\ o.kind = "create" /\ o.pc = "download"
  /\ ops' = ops \ {o}
  /\ lock' = FALSE
  /\ IF downloaded
     THEN \* line 161 runs on self.servers as it is before line 163
          /\ server_properties' =
               update_server_properties(servers, unpack(server_properties, o.name, pack),
                                        o.name, o.port)
          /\ create_commit(o, FreshObj)
          /\ ret' = Ret("create", o.name, "ok")
     ELSE /\ allocated_ports' = release_port(allocated_ports, o.port)
          /\ ret' = Ret("create", o.name, "download_failed")
          /\ UNCHANGED <<servers, objs, persisted, server_properties>>
  /\ UNCHANGED <<processes, procs, monitoring_tasks, mon, boot, stdin_lines, state_file>>

\* ------------------------------------------------------------ the OS processes
\* A spawned process ends: by itself ("crashed": nobody asked for it) or after
\* terminate()/kill() ("stopped").  A signalled process may also stay alive.
ProcExit(p) ==
  /\ procs[p].state \in {"live", "signalled"}
  /\ procs' = [procs EXCEPT ![p].state = IF procs[p].state = "live" THEN "crashed" ELSE "stopped"]
  /\ ret' = NoRet
  /\ UNCHANGED <<servers, objs, processes, monitoring_tasks, mon, allocated_ports, lock,
                 persisted, ops, boot, server_properties, stdin_lines, state_file>>

\* process.terminate() / process.kill() on a handle whose returncode is None
signal(pr, p) ==
  IF pr[p].state = "live" THEN [pr EXCEPT ![p].state = "signalled"] ELSE pr

\* ------------------------------------------------------------ start_server
\* start_precheck with the slip of leaving out the RUNNING check
start_precheck_found(n) == IF servers[n] = 0 THEN "not_found" ELSE "ok"

start_precheck(n) ==
  IF servers[n] = 0 THEN "not_found"
  ELSE IF objs[servers[n]].status = RUNNING THEN "already_running"
  ELSE "ok"

\* lines 237-258: the process is forked inside create_subprocess_shell before
\* the coroutine first yields
spawn(kind, n) ==
  /\ HasFreshProc
  /\ objs[servers[n]].crash_count < MaxCrashCount
  /\ procs' = [procs EXCEPT ![FreshProc] = [state |-> "live", obj |-> servers[n]]]
  /\ ret' = NoRet

\* lines 229-258
StartBegin(n) ==
  /\ LET res == start_precheck(n)
     IN IF res = "ok"
        THEN /\ CanSuspend
             /\ spawn("start", n)
             /\ ops' = Suspend(Op("start", "spawned", n, servers[n], FreshProc, 0,
                                  objs[servers[n]].crash_count))
        ELSE /\ ret' = Ret("start", n, res)
             /\ UNCHANGED <<procs, ops>>
  /\ UNCHANGED <<servers, objs, processes, monitoring_tasks, mon, allocated_ports, lock,
                 persisted, boot, server_properties, stdin_lines, state_file>>

\* lines 260-269: register the handle, STARTING, save, create the monitor task
start_register(o) ==
  /\ processes' = [processes EXCEPT ![o.name] = o.proc]
  /\ objs' = [objs EXCEPT ![o.obj].pid = o.proc, ![o.obj].status = STARTING]
  /\ persisted' = save_server_states(servers, objs')
  /\ monitoring_tasks' = [monitoring_tasks EXCEPT ![o.name] = o.proc]
  /\ mon' = [mon EXCEPT ![o.proc] = [pc |-> "new", name |-> o.name, proc |-> 0, srv |-> 0]]

StartRegister(o) ==
  /\ o \in ops /\ o.kind \in {"start", "restart"} /\ o.pc = "spawned"
  /\ start_register(o)
  /\ ops' = (ops \ {o}) \cup {[o EXCEPT !.pc = "confirm"]}
  /\ ret' = NoRet
  /\ UNCHANGED <<servers, procs, allocated_ports, lock, boot, server_properties, stdin_lines, state_file>>

\* start_running with the slip of saving the descriptor in hand as well
start_running_resave(o) ==
  /\ objs' = [objs EXCEPT ![o.obj].status = RUNNING]
  /\ persisted' = save_server_states([servers EXCEPT ![o.name] = o.obj], objs')

\* lines 270-271 / 277-279: after the confirmation window
start_running(o) ==
  /\ objs' = [objs EXCEPT ![o.obj].status = RUNNING]
  /\ persisted' = save_server_states(servers, objs')

StartConfirm(o) ==
  /\ o \in ops /\ o.kind \in {"start", "restart"} /\ o.pc = "confirm"
  \* the monitor task created at line 267 runs its first step when line 269
  \* yields, before the 5 s timer can fire
  /\ mon[o.proc].pc # "new"
  /\ IF exited(o.proc)
     THEN /\ ops' = (ops \ {o}) \cup {[o EXCEPT !.pc = "communicate"]}
          /\ ret' = NoRet
          /\ UNCHANGED <<objs, persisted>>
     ELSE /\ start_running(o)
          /\ ops' = ops \ {o}
          /\ ret' = [Ret(o.kind, o.name, "ok") EXCEPT !.obj = o.obj, !.cc0 = o.cc0]
  /\ UNCHANGED <<servers, processes, procs, monitoring_tasks, mon, allocated_ports, lock,
                 boot, server_properties, stdin_lines, state_file>>

\* lines 272-275: after process.communicate()
start_crashed(o) ==
  /\ objs' = [objs EXCEPT ![o.obj].status = CRASHED,
                          ![o.obj].crash_count = objs[o.obj].crash_count + 1]
  /\ persisted' = save_server_states(servers, objs')

StartCrashed(o) ==
  /\ o \in ops /\ o.kind \in {"start", "restart"} /\ o.pc = "communicate"
  /\ start_crashed(o)
  /\ ops' = ops \ {o}
  /\ ret' = [Ret(o.kind, o.name, "crashed") EXCEPT !.obj = o.obj, !.cc0 = o.cc0]
  /\ UNCHANGED <<servers, processes, procs, monitoring_tasks, mon, allocated_ports, lock,
                 boot, server_properties, stdin_lines, state_file>>

\* ------------------------------------------------------------ monitor_server
\* monitor_crash with the slip of leaving out the save
monitor_crash_unsaved(srv) ==
  /\ objs' = [objs EXCEPT ![srv].status = CRASHED,
                          ![srv].crash_count = objs[srv].crash_count + 1]
  /\ persisted' = persisted

\* lines 291-296
monitor_crash(srv) ==
  /\ objs' = [objs EXCEPT ![srv].status = CRASHED,
                          ![srv].crash_count = objs[srv].crash_count + 1]
  /\ persisted' = save_server_states(servers, objs')

\* lines 282-298, the task's first step
MonitorStart(m) ==
  /\ mon[m].pc = "new"
  /\ LET process == processes[mon[m].name]
         server == servers[mon[m].name]
     IN IF process = 0 \/ server = 0
        THEN /\ mon' = [mon EXCEPT ![m] = NoMon]
             /\ UNCHANGED <<objs, persisted>>
        ELSE IF exited(process)
        THEN /\ monitor_crash(server)
             /\ mon' = [mon EXCEPT ![m] = NoMon]
        ELSE /\ mon' = [mon EXCEPT ![m] = [pc |-> "loop", name |-> mon[m].name,
                                           proc |-> process, srv |-> server]]
             /\ UNCHANGED <<objs, persisted>>
  /\ ret' = NoRet
  /\ UNCHANGED <<servers, processes, procs, monitoring_tasks, allocated_ports, lock, ops,
                 boot, server_properties, stdin_lines, state_file>>

\* lines 290-298, a wake-up that finds the process gone (the others change nothing)
MonitorPoll(m) ==
  /\ mon[m].pc = "loop"
  /\ exited(mon[m].proc)
  /\ monitor_crash(mon[m].srv)
  /\ mon' = [mon EXCEPT ![m] = NoMon]
  /\ ret' = NoRet
  /\ UNCHANGED <<servers, processes, procs, monitoring_tasks, allocated_ports, lock, ops,
                 boot, server_properties, stdin_lines, state_file>>

\* ------------------------------------------------------------ stop_server
stop_precheck(n) ==
  IF servers[n] = 0 THEN "not_found"
  ELSE IF objs[servers[n]].status # RUNNING THEN "not_running"
  ELSE "ok"

\* lines 325-327
stop_update(ob, srv) == [ob EXCEPT ![srv].status = STOPPED, ![srv].pid = 0]

\* line 316 on a handle whose process has ended: ProcessLookupError once the
\* transport is closed, nothing while its pipes are still open
TerminateOutcomes(p) == IF p # 0 /\ exited(p) THEN {"raises", "ignored"} ELSE {"sent"}

\* lines 337-361 after the stop: forget the handle, cancel the monitor task,
\* remove the directory, release the port, del self.servers[name] (KeyError
\* when the key is gone), save
cancel(mo, t) ==
  IF t # 0 /\ mo[t].pc \in {"new", "loop"} THEN [mo EXCEPT ![t] = NoMon] ELSE mo

delete_rest(n, srv, ob, stopped) ==
  /\ objs' = ob
  /\ processes' = [processes EXCEPT ![n] = 0]
  /\ mon' = cancel(mon, monitoring_tasks[n])
  /\ monitoring_tasks' = [monitoring_tasks EXCEPT ![n] = 0]
  /\ server_properties' = [server_properties EXCEPT ![n] = 0]
  /\ allocated_ports' = release_port(allocated_ports, ob[srv].port)
  /\ IF servers[n] = 0
     THEN /\ servers' = servers
          /\ persisted' = IF stopped THEN save_server_states(servers, ob) ELSE persisted
          /\ ret' = [Ret("delete", n, "raised") EXCEPT !.obj = srv, !.running0 = stopped]
     ELSE /\ servers' = [servers EXCEPT ![n] = 0]
          /\ persisted' = save_server_states(servers', ob)
          /\ ret' = [Ret("delete", n, "ok") EXCEPT !.obj = srv, !.running0 = stopped]

\* lines 306-318 as called by stop_server, restart_server (line 331) and
\* delete_server (line 343, when the status is RUNNING)
StopBegin(kind, n) ==
  /\ stop_precheck(n) = "ok"
  /\ LET srv == servers[n]
         process == processes[n]
     IN IF process = 0
        THEN \* no handle: lines 325-328 follow at once
             CASE kind = "stop" ->
                    /\ objs' = stop_update(objs, srv)
                    /\ persisted' = save_server_states(servers, objs')
                    /\ ret' = [Ret("stop", n, "ok") EXCEPT !.obj = srv]
                    /\ UNCHANGED <<servers, processes, procs, monitoring_tasks, mon,
                                   allocated_ports, ops, server_properties>>
               [] kind = "restart" ->
                    /\ CanSuspend
                    /\ objs' = stop_update(objs, srv)
                    /\ persisted' = save_server_states(servers, objs')
                    /\ ops' = Suspend(Op("restart", "settle", n, srv, 0, 0, 0))
                    /\ ret' = NoRet
                    /\ UNCHANGED <<servers, processes, procs, monitoring_tasks, mon,
                                   allocated_ports, server_properties>>
               [] kind = "delete" ->
                    /\ delete_rest(n, srv, stop_update(objs, srv), TRUE)
                    /\ UNCHANGED <<procs, ops>>
        ELSE \E t \in TerminateOutcomes(process) :
               IF t = "raises"
               THEN /\ ret' = [Ret(kind, n, "raised") EXCEPT !.obj = srv,
                                                              !.running0 = (kind = "delete")]
                    /\ UNCHANGED <<servers, objs, processes, procs, monitoring_tasks, mon,
                                   allocated_ports, persisted, ops, server_properties>>
               ELSE /\ CanSuspend
                    /\ procs' = signal(procs, process)
                    /\ ops' = Suspend(Op(kind, "grace", n, srv, process, 0, 0))
                    /\ ret' = NoRet
                    /\ UNCHANGED <<servers, objs, processes, monitoring_tasks, mon,
                                   allocated_ports, persisted, server_properties>>
  /\ UNCHANGED <<lock, boot, stdin_lines, state_file>>

\* StopReject with the slip of restart_server going on to its settle delay
\* and start_server whatever stop_server returned
StopRejectGoesOn(kind, n) ==
  /\ kind \in {"stop", "restart"}
  /\ stop_precheck(n) # "ok"
  /\ IF kind = "restart"
     THEN /\ CanSuspend
          /\ ops' = Suspend(Op("restart", "settle", n, servers[n], 0, 0, 0))
          /\ ret' = NoRet
     ELSE /\ ret' = Ret(kind, n, stop_precheck(n))
          /\ UNCHANGED ops
  /\ UNCHANGED <<servers, objs, processes, procs, monitoring_tasks, mon, allocated_ports,
                 lock, persisted, boot, server_properties, stdin_lines, state_file>>

\* a precondition of stop_server fails (lines 307-312; restart returns the same)
StopReject(kind, n) ==
  /\ kind \in {"stop", "restart"}
  /\ stop_precheck(n) # "ok"
  /\ ret' = Ret(kind, n, stop_precheck(n))
  /\ UNCHANGED <<servers, objs, processes, procs, monitoring_tasks, mon, allocated_ports,
                 lock, persisted, ops, boot, server_properties, stdin_lines, state_file>>

\* lines 319-328 after the grace period, then the caller's next lines
StopFinish(o) ==
  /\ o \in ops /\ o.pc = "grace"
  /\ procs' = IF exited(o.proc) THEN procs ELSE signal(procs, o.proc)
  /\ LET ob == stop_update(objs, o.obj)
     IN CASE o.kind = "stop" ->
               /\ objs' = ob
               /\ persisted' = save_server_states(servers, ob)
               /\ ops' = ops \ {o}
               /\ ret' = [Ret("stop", o.name, "ok") EXCEPT !.obj = o.obj]
               /\ UNCHANGED <<servers, processes, monitoring_tasks, mon, allocated_ports,
                              server_properties>>
          [] o.kind = "restart" ->
               /\ objs' = ob
               /\ persisted' = save_server_states(servers, ob)
               /\ ops' = (ops \ {o}) \cup {[o EXCEPT !.pc = "settle"]}
               /\ ret' = NoRet
               /\ UNCHANGED <<servers, processes, monitoring_tasks, mon, allocated_ports,
                              server_properties>>
          [] o.kind = "delete" ->
               /\ delete_rest(o.name, o.obj, ob, TRUE)
               /\ ops' = ops \ {o}
  /\ UNCHANGED <<lock, boot, stdin_lines, state_file>>

\* ------------------------------------------------------------ restart_server
\* lines 334-335: the settle delay is over, start_server is entered
RestartStart(o) ==
  /\ o \in ops /\ o.kind = "restart" /\ o.pc = "settle"
  /\ LET res == start_precheck(o.name)
     IN IF res = "ok"
        THEN /\ spawn("restart", o.name)
             /\ ops' = (ops \ {o}) \cup
                       {[o EXCEPT !.pc = "spawned", !.obj = servers[o.name], !.proc = FreshProc,
                                  !.cc0 = objs[servers[o.name]].crash_count]}
        ELSE /\ ret' = Ret("restart", o.name, res)
             /\ ops' = ops \ {o}
             /\ UNCHANGED procs
  /\ UNCHANGED <<servers, objs, processes, monitoring_tasks, mon, allocated_ports, lock,
                 persisted, boot, server_properties, stdin_lines, state_file>>

\* ------------------------------------------------------------ delete_server
\* lines 337-361 when no stop is needed (or the name is unknown)
DeleteBegin(n) ==
  /\ stop_precheck(n) # "ok"
  /\ IF servers[n] = 0
     THEN /\ ret' = Ret("delete", n, "not_found")
          /\ UNCHANGED <<servers, objs, processes, monitoring_tasks, mon, allocated_ports,
                         persisted, server_properties>>
     ELSE delete_rest(n, servers[n], objs, FALSE)
  /\ UNCHANGED <<procs, lock, ops, boot, stdin_lines, state_file>>

\* ------------------------------------------------------------ the manager's own life
\* The manager process ends and a new one is constructed (lines 43-60): every
\* task and handle of the old run is gone, the fleet is read from the file.
ManagerRestart ==
  /\ servers' = loaded_servers
  /\ objs' = loaded_objs
  /\ allocated_ports' = loaded_ports
  /\ processes' = [n \in Names |-> 0]
  /\ procs' = [p \in ProcIds |-> NoProcRec]
  /\ monitoring_tasks' = [n \in Names |-> 0]
  /\ mon' = [p \in ProcIds |-> NoMon]
  /\ lock' = FALSE
  /\ ops' = {}
  /\ ret' = NoRet
  /\ boot' = "loaded"
  /\ stdin_lines' = [p \in ProcIds |-> 0]
  /\ UNCHANGED <<persisted, server_properties, state_file>>

\* auto_start_on_boot (lines 384-391) as on_ready calls it (discord_bot.py
\* line 260): start_server for every descriptor whose status is RUNNING.  The
\* loop ends at its first await, a start_server that gets past its checks.
auto_start_names == {n \in Names : servers[n] # 0 /\ objs[servers[n]].status = RUNNING}

AutoStartOnBoot(enabled) ==
  /\ boot = "loaded"
  /\ boot' = "ready"
  /\ IF enabled /\ \E n \in auto_start_names : start_precheck(n) = "ok"
     THEN LET n == CHOOSE m \in auto_start_names : start_precheck(m) = "ok"
          IN /\ CanSuspend
             /\ spawn("start", n)
             /\ ops' = Suspend(Op("start", "spawned", n, servers[n], FreshProc, 0,
                                  objs[servers[n]].crash_count))
     ELSE /\ ret' = Ret("auto_start", NoName, IF enabled THEN "done" ELSE "disabled")
          /\ UNCHANGED <<procs, ops>>
  /\ UNCHANGED <<servers, objs, processes, monitoring_tasks, mon, allocated_ports, lock,
                 persisted, server_properties, stdin_lines, state_file>>

\* ------------------------------------------------------------ send_console_command
\* process.stdin of a handle made at lines 252-258: create_subprocess_shell is
\* given pipes for stdout and stderr and none for stdin, so the attribute is None
has_stdin(p) == FALSE

console_precheck(n) ==
  IF servers[n] = 0 THEN "not_found"
  ELSE IF processes[n] = 0 \/ objs[servers[n]].status # RUNNING THEN "not_running"
  ELSE "ok"

\* lines 363-379.  With a stdin pipe, line 374 hands a str to a writer of
\* bytes: the write raises, nothing reaches the process and line 379 returns
\* the failure.
SendConsoleCommand(n) ==
  /\ LET res == console_precheck(n)
     IN IF res # "ok"
        THEN ret' = Ret("console", n, res)
        ELSE IF has_stdin(processes[n])
        THEN ret' = Ret("console", n, "failed")
        ELSE ret' = [Ret("console", n, "ok") EXCEPT !.obj = servers[n]]
  /\ UNCHANGED <<servers, objs, processes, procs, monitoring_tasks, mon, allocated_ports,
                 lock, persisted, ops, boot, server_properties, stdin_lines, state_file>>

\* ------------------------------------------------------------ setprop
\* discord_bot.py lines 207-226: /setprop name server-port value
SetProp(n, value) ==
  /\ IF servers[n] = 0
     THEN /\ ret' = Ret("setprop", n, "not_found")
          /\ UNCHANGED server_properties
     ELSE /\ server_properties' = update_server_properties(servers, server_properties, n, value)
          /\ ret' = Ret("setprop", n, IF server_properties[n] = 0 THEN "no_file" ELSE "ok")
  /\ UNCHANGED <<servers, objs, processes, procs, monitoring_tasks, mon, allocated_ports,
                 lock, persisted, ops, boot, stdin_lines, state_file>>

\* ------------------------------------------------------------ the state file on disk
\* save_server_states (lines 82-86) as the file system sees it: open(.., 'w')
\* truncates the file, json.dump writes through a buffer that is flushed when
\* it fills, leaving the with block flushes the rest and closes.
SaveOpen ==
  /\ state_file = "complete"
  /\ persisted # save_server_states(servers, objs)
  /\ state_file' = "empty"
  /\ persisted' = [n \in Names |-> Absent]
  /\ ret' = NoRet
  /\ UNCHANGED <<servers, objs, processes, procs, monitoring_tasks, mon, allocated_ports,
                 lock, ops, boot, server_properties, stdin_lines>>

SaveFlush ==
  /\ state_file = "empty"
  /\ boot # "failed"
  /\ state_file' = "partial"
  /\ ret' = NoRet
  /\ UNCHANGED <<servers, objs, processes, procs, monitoring_tasks, mon, allocated_ports,
                 lock, persisted, ops, boot, server_properties, stdin_lines>>

SaveClose ==
  /\ state_file \in {"empty", "partial"}
  /\ boot # "failed"
  /\ state_file' = "complete"
  /\ persisted' = save_server_states(servers, objs)
  /\ ret' = NoRet
  /\ UNCHANGED <<servers, objs, processes, procs, monitoring_tasks, mon, allocated_ports,
                 lock, ops, boot, server_properties, stdin_lines>>

\* json.load (line 74) by whoever opens the file now
ReadStateFile ==
  /\ ret' = Ret("load", NoName, IF state_file = "complete" THEN "ok" ELSE "JSONDecodeError")
  /\ UNCHANGED <<servers, objs, processes, procs, monitoring_tasks, mon, allocated_ports,
                 lock, persisted, ops, boot, server_properties, stdin_lines, state_file>>

\* The manager process is killed between the open and the close; the next
\* manager's load_server_states raises in __init__ (lines 71-74 are not
\* guarded), so no manager comes up.
KilledInSave ==
  /\ state_file \in {"empty", "partial"}
  /\ boot # "failed"
  /\ boot' = "failed"
  /\ servers' = [n \in Names |-> 0]
  /\ objs' = [o \in ObjIds |-> Absent]
  /\ allocated_ports' = [p \in Ports |-> NoName]
  /\ ret' = Ret("load", NoName, "JSONDecodeError")
  /\ UNCHANGED <<processes, procs, monitoring_tasks, mon, lock, persisted, ops,
                 server_properties, stdin_lines, state_file>>

\* ------------------------------------------------------------ specifications
\* what the operator can ask for a name, each a call of a public coroutine
Command(n) ==
  \/ CreateBegin(n)
  \/ StartBegin(n)
  \/ \E k \in {"stop", "restart", "delete"} : StopBegin(k, n)
  \/ \E k \in {"stop", "restart"} : StopReject(k, n)
  \/ DeleteBegin(n)
  \/ SendConsoleCommand(n)

\* a suspended handler resumes
Resume ==
  \/ \E o \in ops, d \in BOOLEAN : CreateFinish(o, d, 0)
  \/ \E o \in ops : StartRegister(o)
  \/ \E o \in ops : StartConfirm(o)
  \/ \E o \in ops : StartCrashed(o)
  \/ \E o \in ops : StopFinish(o)
  \/ \E o \in ops : RestartStart(o)

\* what runs without the operator: the processes and the monitor tasks
Background ==
  \/ \E p \in ProcIds : ProcExit(p)
  \/ \E m \in ProcIds : MonitorStart(m)
  \/ \E m \in ProcIds : MonitorPoll(m)

\* One manager run from an empty fleet; commands overlap (up to MaxOps
\* handlers are suspended at a time) and all name the same server.
RaceNames == {"a"}
Next ==
  \/ \E n \in RaceNames : Command(n)
  \/ Resume
  \/ Background

Spec == Init /\ [][Next]_vars

\* The fleet over manager restarts: commands for every name, each issued
\* after on_ready and when no other handler is suspended; the manager can be
\* restarted at any moment.
NextFleet ==
  \/ \E n \in Names : ops = {} /\ boot = "ready" /\ Command(n)
  \/ Resume
  \/ Background
  \/ ManagerRestart
  \/ \E e \in BOOLEAN : AutoStartOnBoot(e)

SpecFleet == Init /\ [][NextFleet]_vars

\* The server directories: servers are created from packs that may ship a
\* server.properties, their server-port is set with /setprop, they are deleted.
NextProps ==
  \/ \E n \in Names : CreateBegin(n)
  \/ \E o \in ops, d \in BOOLEAN, f \in PackFiles : CreateFinish(o, d, f)
  \/ \E n \in Names : DeleteBegin(n)
  \/ \E n \in Names, v \in Ports : SetProp(n, v)

SpecProps == Init /\ [][NextProps]_vars

\* One call of save_server_states: the file holds the fleet as it was before
\* a create_server or a delete_server changed it by one descriptor, and the
\* changed fleet is in memory.
Descriptors == {Absent} \cup {ServerConfig(p) : p \in Ports}
FleetFiles == [Names -> Descriptors]
InitSave ==
  \E old, new \in FleetFiles :
    /\ \E n \in Names :
         /\ old[n] # new[n]
         /\ Absent \in {old[n], new[n]}
         /\ \A m \in Names \ {n} : old[m] = new[m]
    /\ persisted = old
    /\ servers = [n \in Names |-> IF new[n] = Absent THEN 0 ELSE Rank(n)]
    /\ objs = [o \in ObjIds |->
                 IF \E m \in Names : Rank(m) = o
                 THEN LET n == CHOOSE m \in Names : Rank(m) = o
                      IN IF new[n] # Absent THEN new[n] ELSE old[n]
                 ELSE Absent]
    /\ allocated_ports = [p \in Ports |->
                            IF \E n \in Names : new[n].port = p
                            THEN CHOOSE n \in Names : new[n].port = p
                            ELSE NoName]
    /\ processes = [n \in Names |-> 0]
    /\ procs = [p \in ProcIds |-> NoProcRec]
    /\ monitoring_tasks = [n \in Names |-> 0]
    /\ mon = [p \in ProcIds |-> NoMon]
    /\ lock = FALSE
    /\ ops = {}
    /\ ret = NoRet
    /\ boot = "loaded"
    /\ server_properties = [n \in Names |-> 0]
    /\ stdin_lines = [p \in ProcIds |-> 0]
    /\ state_file = "complete"

NextSave ==
  \/ SaveOpen
  \/ SaveFlush
  \/ SaveClose
  \/ ReadStateFile
  \/ KilledInSave

SpecSave == InitSave /\ [][NextSave]_vars
\* ------------------------------------------------------------ the claims
InFleet(n) == servers[n] # 0
Desc(n) == objs[servers[n]]
Live(n) == InFleet(n) /\ Desc(n).status \in {STARTING, RUNNING}

\* C1: no two descriptors whose status is STARTING or RUNNING have the same port.
C1_NoSharedLivePort ==
  \A n1, n2 \in Names :
    (n1 # n2 /\ Live(n1) /\ Live(n2)) => Desc(n1).port # Desc(n2).port

\* C2: the number of RUNNING descriptors never exceeds max_concurrent.
C2_RunningWithinCeiling == get_running_count <= max_concurrent

\* C3: a stop_server call that passed its checks (the descriptor was RUNNING)
\* returns success, with the descriptor STOPPED and its pid cleared, in memory
\* and, while it is in the fleet, in the state file.
C3_StopAlwaysStops ==
  (ret.op = "stop" /\ ret.res \notin {"not_found", "not_running"}) =>
    /\ ret.res = "ok"
    /\ objs[ret.obj].status = STOPPED
    /\ objs[ret.obj].pid = 0
    /\ (servers[ret.name] = ret.obj => persisted[ret.name] = objs[ret.obj])

\* C4: crash_count of a descriptor never exceeds the number of processes
\* spawned for it that ended without a stop, restart or delete asking for it
\* (it rises only on such an end, and by one for each).
UnexpectedExits(o) == {p \in ProcIds : procs[p].obj = o /\ procs[p].state = "crashed"}
C4_CrashCountCountsCrashes ==
  \A o \in ObjIds : objs[o].crash_count <= Cardinality(UnexpectedExits(o))

\* C5: when start_server reports that the process exited in the confirmation
\* window, the descriptor is CRASHED and crash_count is one more than it was
\* when start_server was called.
C5_FailedStartCountsOnce ==
  (ret.op = "start" /\ ret.res = "crashed") =>
    /\ objs[ret.obj].status = CRASHED
    /\ objs[ret.obj].crash_count = ret.cc0 + 1

\* C6: a descriptor's pid is set if and only if its status is STARTING or RUNNING.
C6_PidIffLive ==
  \A n \in Names : InFleet(n) => (Desc(n).pid # 0 <=> Desc(n).status \in {STARTING, RUNNING})

\* C7: a port is a key of allocated_ports if and only if some descriptor of
\* the fleet with status STARTING or RUNNING has that port.
C7_TableIffLive ==
  \A p \in Ports :
    allocated_ports[p] # NoName <=> \E n \in Names : Live(n) /\ Desc(n).port = p

\* C8: when auto_start_on_boot has run with auto start enabled, every
\* descriptor the state file holds as RUNNING is backed by a tracked process
\* or is marked CRASHED.
C8_BootRestartsRunning ==
  (ret.op = "auto_start" /\ ret.res = "done") =>
    \A n \in Names :
      persisted[n].status = RUNNING =>
        InFleet(n) /\ (processes[n] # 0 \/ Desc(n).status = CRASHED)

\* C9: delete_server on a RUNNING descriptor returns success with the
\* descriptor stopped and removed and its port released: the name is not in
\* the fleet, the port is not in the port table and allocate_port can return it.
C9_DeleteRunning ==
  (ret.op = "delete" /\ ret.running0) =>
    /\ ret.res = "ok"
    /\ objs[ret.obj].status = STOPPED
    /\ ~InFleet(ret.name)
    /\ allocated_ports[objs[ret.obj].port] = NoName
    /\ allocate_port # 0 /\ allocate_port <= objs[ret.obj].port

\* C10: a name that is not in the fleet, or not in the state file, enters it
\* only by a create_server for that name committing: no step of a monitor
\* task and no start_server in flight brings a deleted name back.
CreateCommits(n) ==
  \E o \in ops : o.kind = "create" /\ o.name = n /\ o \notin ops'
C10_NoResurrection ==
  [][\A n \in Names :
       ((servers[n] = 0 /\ servers'[n] # 0) \/ (persisted[n] = Absent /\ persisted'[n] # Absent))
         => CreateCommits(n)]_vars
\* a start_server that was in flight when its name was deleted has returned
C10_Witness ==
  /\ ret.op = "start" /\ ret.res = "ok"
  /\ servers[ret.name] = 0
  /\ persisted[ret.name] = Absent

\* C11: when the download of a create_server(name) call fails, the call
\* returns a failure, name has no descriptor in the fleet, and the call has
\* changed neither the port table nor the state file: not in the step that
\* allocates the port and awaits the download, not in the step that gives up.
C11_FailedCreateLeavesNothing ==
  [][/\ (\E o \in ops' \ ops : o.kind = "create")
          => UNCHANGED <<servers, allocated_ports, persisted>>
     /\ \A o \in ops :
          (\E f \in PackFiles : CreateFinish(o, FALSE, f)) =>
            /\ ret'.op = "create" /\ ret'.name = o.name /\ ret'.res = "download_failed"
            /\ servers'[o.name] = 0
            /\ UNCHANGED <<servers, allocated_ports, persisted>>]_vars
\* a create_server has failed at its download while another server holds a port
C11_Witness ==
  /\ ret.op = "create" /\ ret.res = "download_failed"
  /\ servers[ret.name] = 0
  /\ \E p \in Ports : allocated_ports[p] # NoName

\* C12: a create_server for a name that is not in the fleet, entered while
\* max_concurrent or more descriptors are RUNNING, returns the concurrency
\* limit failure at once and changes neither the fleet nor the port table nor
\* the state file.
CreateCalled(n) ==
  \/ ret'.op = "create" /\ ret'.name = n /\ ops' = ops
  \/ \E o \in ops' \ ops : o.kind = "create" /\ o.name = n
C12_CreateAtCeiling ==
  [][\A n \in Names :
       (CreateCalled(n) /\ servers[n] = 0 /\ get_running_count >= max_concurrent)
         => /\ ret'.op = "create" /\ ret'.res = "limit"
            /\ UNCHANGED <<servers, objs, allocated_ports, persisted>>]_vars
\* a create_server for a new name has been refused at the ceiling
C12_Witness ==
  /\ ret.op = "create" /\ ret.res = "limit"
  /\ servers[ret.name] = 0
  /\ get_running_count >= max_concurrent

\* C13: when create_server(name) has returned success and the server
\* directory holds a server.properties, the state file holds a STOPPED
\* descriptor for name and the file's server-port is that descriptor's port.
C13_CreateAppliesPort ==
  (ret.op = "create" /\ ret.res = "ok" /\ server_properties[ret.name] # 0) =>
    /\ persisted[ret.name] # Absent
    /\ persisted[ret.name].status = STOPPED
    /\ server_properties[ret.name] = persisted[ret.name].port

\* C14: restart_count of a descriptor rises by exactly one in the step in
\* which a restart_server call on it reports that the new process is running,
\* and no other step changes it.
RestartSucceeds(o) == ret'.op = "restart" /\ ret'.res = "ok" /\ ret'.obj = o
C14_RestartCountCounts ==
  [][\A o \in ObjIds :
       (objs[o] # Absent /\ objs'[o] # Absent) =>
         objs'[o].restart_count =
           objs[o].restart_count + (IF RestartSucceeds(o) THEN 1 ELSE 0)]_vars

\* C15: every step that changes the status of a descriptor takes it along an
\* edge of the state machine: STOPPED to STARTING, STARTING to RUNNING,
\* RUNNING to STOPPING, STOPPING to STOPPED, STARTING or RUNNING to CRASHED,
\* CRASHED to STARTING, or from any status to ERROR.
Statuses == {STOPPED, STARTING, RUNNING, STOPPING, CRASHED, ERROR}
StatusEdges ==
  {<<STOPPED, STARTING>>, <<STARTING, RUNNING>>, <<RUNNING, STOPPING>>,
   <<STOPPING, STOPPED>>, <<STARTING, CRASHED>>, <<RUNNING, CRASHED>>,
   <<CRASHED, STARTING>>} \cup {<<s, ERROR>> : s \in Statuses}
C15_StatusFollowsEdges ==
  [][\A o \in ObjIds :
       (objs[o] # Absent /\ objs'[o] # Absent /\ objs'[o].status # objs[o].status)
         => <<objs[o].status, objs'[o].status>> \in StatusEdges]_vars

\* C16: a call that fails a precondition check (create_server on a name in
\* the fleet; start_server, stop_server, restart_server, delete_server or
\* send_console_command on a name that is not; start_server on a RUNNING
\* descriptor; stop_server or send_console_command on one that is not
\* RUNNING) returns a failure in the step that makes the check, and that step
\* leaves the fleet, the port table, the tracked processes, the monitor tasks
\* and the state file as they were.
Failures == {"exists", "not_found", "already_running", "not_running"}
OpKinds == {"create", "start", "stop", "restart", "delete", "console"}
\* this step is the first of a call of k on n: the call returns at once or suspends
Called(k, n) ==
  \/ ret'.op = k /\ ret'.name = n /\ ops' = ops
  \/ /\ Cardinality(ops') > Cardinality(ops)
     /\ \E o \in ops' \ ops : o.kind = k /\ o.name = n
PreFails(k, n) ==
  CASE k = "create" -> servers[n] # 0
    [] k = "start" -> servers[n] = 0 \/ objs[servers[n]].status = RUNNING
    [] k \in {"stop", "console"} -> servers[n] = 0 \/ objs[servers[n]].status # RUNNING
    [] k \in {"restart", "delete"} -> servers[n] = 0
C16_FailedCheckChangesNothing ==
  [][/\ \A k \in OpKinds, n \in Names :
          (Called(k, n) /\ PreFails(k, n)) => ret'.op = k /\ ret'.res \in Failures
     /\ (ret'.op \in OpKinds /\ ret'.res \in Failures)
          => UNCHANGED <<servers, objs, allocated_ports, processes, procs,
                         monitoring_tasks, mon, persisted>>]_vars
\* start_server has been refused on a RUNNING descriptor with a tracked process
C16_Witness ==
  /\ ret.op = "start" /\ ret.res = "already_running"
  /\ processes[ret.name] # 0
  /\ monitoring_tasks[ret.name] # 0

\* C17: send_console_command(name, text) returns a failure when name is
\* unknown, when the descriptor is not RUNNING and when there is no tracked
\* handle of a process that is still alive; when it returns success, one more
\* line has been written to the input stream of the process tracked for name.
C17_ConsoleWritesOrFails ==
  [][\A n \in Names :
       (ret'.op = "console" /\ ret'.name = n) =>
         /\ (servers[n] = 0 \/ objs[servers[n]].status # RUNNING
               \/ processes[n] = 0 \/ exited(processes[n]))
              => ret'.res # "ok"
         /\ ret'.res = "ok"
              => (processes[n] # 0
                    /\ stdin_lines'[processes[n]] = stdin_lines[processes[n]] + 1)]_vars

\* C18: a restart_server(name) whose stop step fails (the name is unknown or
\* the descriptor is not RUNNING) returns that failure at once: no process is
\* spawned and no handler stays behind to enter start_server.
C18_RestartStopsAtFailedStop ==
  [][\A n \in Names :
       (Called("restart", n) /\ stop_precheck(n) # "ok") =>
         /\ ret' = Ret("restart", n, stop_precheck(n))
         /\ procs' = procs
         /\ ops' = ops]_vars
\* restart_server has been refused on a descriptor that was not RUNNING
C18_Witness ==
  /\ ret.op = "restart" /\ ret.res = "not_running"
  /\ servers[ret.name] # 0
  /\ objs[servers[ret.name]].status # RUNNING

\* C19: at most one of create_server, start_server, stop_server,
\* restart_server and delete_server is between its first read of the
\* descriptors and its last write at any time, and a monitor task makes its
\* crash update only when none of them is: the handlers suspended at an await
\* are never two, and never one when a monitor task marks a descriptor CRASHED.
MonitorUpdates ==
  \E m \in ProcIds : mon[m].pc \in {"new", "loop"} /\ mon'[m] = NoMon /\ objs' # objs
C19_OneMutatingOperation ==
  [][/\ Cardinality(ops') <= 1
     /\ MonitorUpdates => ops = {}]_vars

\* C20: save_server_states replaces the state file atomically: every step
\* leaves on disk a complete file that holds either the fleet it held before
\* the step or the fleet in memory, never an empty or partly written one.
C20_AtomicSave ==
  [][/\ state_file' = "complete"
     /\ persisted' \in {persisted, save_server_states(servers, objs)}]_vars

\* C21: when no handler is suspended in the middle of its steps, and when a
\* create_server, start_server, stop_server, restart_server or delete_server
\* has just returned, the state file holds exactly the descriptors of the
\* fleet in memory, with the same attribute values.
C21_FileMirrorsFleet ==
  (ops = {} \/ ret.op \in {"create", "start", "stop", "restart", "delete"})
    => persisted = save_server_states(servers, objs)
\* a monitor task has marked a descriptor of the fleet CRASHED and no handler
\* is suspended
C21_Witness ==
  /\ ops = {}
  /\ \E n \in Names :
       /\ InFleet(n) /\ Desc(n).status = CRASHED /\ Desc(n).crash_count > 0
       /\ persisted[n] = Desc(n)

\* C22: allocate_port returns the lowest port of port_min .. port_max that is
\* not a key of the port table, never a port outside the range, and none (0)
\* exactly when every port of the range is a key; in the state after a step
\* that releases port p, allocate_port returns p unless a lower port is free,
\* and then that one.
LowestFree(r) ==
  /\ r = 0 <=> \A p \in port_min .. port_max : allocated_ports[p] # NoName
  /\ r # 0 => /\ r \in port_min .. port_max
              /\ allocated_ports[r] = NoName
              /\ \A q \in port_min .. port_max : q < r => allocated_ports[q] # NoName
Released(p) == allocated_ports[p] # NoName /\ allocated_ports' = release_port(allocated_ports, p)
C22_AllocateLowestFree ==
  [][/\ LowestFree(allocate_port)
     /\ LowestFree(allocate_port)'
     /\ \A o \in ops' \ ops : o.kind = "create" => o.port = allocate_port
     /\ \A p \in port_min .. port_max :
          Released(p) =>
            /\ allocate_port' \in port_min .. p
            /\ (\A q \in port_min .. port_max : q < p => allocated_ports'[q] # NoName)
                 => allocate_port' = p]_vars
\* the lower port has been released by a delete_server while the higher one
\* is taken, and allocate_port returns it again
C22_Witness ==
  /\ ret.op = "delete" /\ ret.res = "ok"
  /\ allocated_ports[port_min] = NoName
  /\ allocated_ports[port_max] # NoName
  /\ allocate_port = port_min

\* C23: no two descriptors of the fleet have the same port, whatever their
\* status, also after the manager has been restarted and has loaded the fleet
\* from the state file.
C23_NoSharedPort ==
  \A n1, n2 \in Names :
    (n1 # n2 /\ InFleet(n1) /\ InFleet(n2)) => Desc(n1).port # Desc(n2).port

\* C24: when stop_server has returned success, a monitor task that wakes up
\* next leaves the descriptor STOPPED and its crash_count as it is: the task
\* started for the stopped process does not mark the descriptor CRASHED.
C24_StoppedStaysStopped ==
  [][\A o \in ObjIds :
       (ret.op = "stop" /\ ret.res = "ok" /\ ret.obj = o /\ MonitorUpdates) =>
         /\ objs'[o].status = STOPPED
         /\ objs'[o].crash_count = objs[o].crash_count]_vars

\* C25: when no handler is suspended, every live process the manager has
\* spawned is the tracked handle of a name whose descriptor is in the fleet
\* and is STARTING or RUNNING, so that no name has two live processes.
C25_LiveProcessIsTracked ==
  ops = {} =>
    \A p \in ProcIds :
      procs[p].state = "live" =>
        \E n \in Names : processes[n] = p /\ Live(n)

\* C26: no step sets a descriptor of the fleet to CRASHED or raises its
\* crash_count while the process tracked for its name is live: a monitor task
\* of an earlier process of the name does not report the crash of that
\* process on the descriptor the newer process runs under.
TrackedLive(n) == processes[n] # 0 /\ procs[processes[n]].state = "live"
C26_NoCrashWhileTrackedLive ==
  [][\A n \in Names :
       (InFleet(n) /\ TrackedLive(n)) =>
         /\ objs'[servers[n]].status = CRASHED => objs[servers[n]].status = CRASHED
         /\ objs'[servers[n]].crash_count = objs[servers[n]].crash_count]_vars
====
